---- MODULE Spec2Model ----
(***************************************************************************)
(* eralchemy/sqla.py: SQLAlchemy metadata -> intermediary Table / Column / *)
(* Relation records.                                                        *)
(*                                                                          *)
(* Python values are modelled by what the code can observe of them:        *)
(*   - a value is a record [kind, str, raises]: its kind ("text" for a     *)
(*     unicode string, "other" for any object that is not text, "type" for *)
(*     a SQLAlchemy type object), the text that unicode() gives for it,    *)
(*     and the exception that unicode() raises on it ("None": it returns); *)
(*   - an object is a record of its attributes plus attrs, the set of      *)
(*     attribute names it really has: reading any other attribute raises   *)
(*     AttributeError;                                                      *)
(*   - the outcome of a call is [exc, value]: exc = "None" and the value   *)
(*     returned, or the name of the exception raised and NoValue.          *)
(***************************************************************************)
EXTENDS Integers, Sequences, FiniteSets

VARIABLES
    input,      \* the column, foreign key or table the next call is given
    out,        \* the last finished call: [op, arg, fmt, exc, value]
    metadata,   \* the MetaData object the metadata-level calls are given;
                \* for database_to_intermediary, what the database holds
    first,      \* the first metadata_to_intermediary(metadata) call, and
                \* whether another call has been made since
    pc,         \* database_to_intermediary: position in the function body
    engine,     \* database_to_intermediary: the Engine create_engine returned
    Base,       \* database_to_intermediary: Base, the automap base
    pool        \* DBAPI connections the engine's pool holds open

vars == <<input, out, metadata, first, pc, engine, Base, pool>>

----------------------------------------------------------------------------
(* Bounds                                                                   *)

\* longest column list of a table given to table_to_intermediary
MaxCols == 2
\* most schema objects (tables + columns + foreign keys) in one MetaData
MaxObjects == 4

----------------------------------------------------------------------------
(* Values                                                                   *)

Text(s)  == [kind |-> "text",  str |-> s, raises |-> "None"]
Other(s) == [kind |-> "other", str |-> s, raises |-> "None"]
TypeObj(s, e) == [kind |-> "type", str |-> s, raises |-> e]

NoValue == [kind |-> "novalue"]
Ok(v)    == [exc |-> "None", value |-> v]
Raise(e) == [exc |-> e, value |-> NoValue]
IsOk(o)  == o.exc = "None"

\* obj.a : AttributeError when the object has no such attribute
GetAttr(obj, a) == IF a \in obj.attrs THEN Ok(obj[a]) ELSE Raise("AttributeError")

\* unicode(x) (str on Python 3): the text form of x, or the exception that
\* x's string conversion raises
unicode(x) == IF x.raises = "None" THEN Ok(Text(x.str)) ELSE Raise(x.raises)

\* mutant: a bare except, every exception gives 'Null'
format_type_mut_bare_except(typ) ==
    LET r == unicode(typ)
    IN  IF IsOk(r) THEN r ELSE Ok(Text("Null"))

\* try: return unicode(typ) / except CompileError: return 'Null'
format_type(typ) ==
    LET r == unicode(typ)
    IN  IF r.exc = "CompileError" THEN Ok(Text("Null")) ELSE r

format_name(name) == unicode(name)

\* a formatter the caller passes instead of format_type
custom_formatter(typ) == Ok(Text("custom"))

ApplyFormatter(fmt, typ) ==
    IF fmt = "format_type" THEN format_type(typ) ELSE custom_formatter(typ)

\* The first exception of a left-to-right evaluation, or all the values.
\* outs is the sequence of outcomes in evaluation order.
FirstFailure(outs) ==
    IF \E i \in 1..Len(outs) : ~IsOk(outs[i])
    THEN LET i == CHOOSE k \in 1..Len(outs) :
                      /\ ~IsOk(outs[k])
                      /\ \A j \in 1..(k-1) : IsOk(outs[j])
         IN  Raise(outs[i].exc)
    ELSE Ok([i \in 1..Len(outs) |-> outs[i].value])

\* mutant: is_key is not taken from col.primary_key
column_to_intermediary_mut_key(col, type_formatter) ==
    LET name == GetAttr(col, "name")
        typ  == GetAttr(col, "type")
        ftyp == IF IsOk(typ) THEN ApplyFormatter(type_formatter, typ.value) ELSE typ
        key  == GetAttr(col, "primary_key")
        args == FirstFailure(<<name, ftyp, key>>)
    IN  IF IsOk(args)
        THEN Ok([name |-> args.value[1], type |-> args.value[2], is_key |-> FALSE])
        ELSE args

\* Column(name=col.name, type=type_formatter(col.type), is_key=col.primary_key)
column_to_intermediary(col, type_formatter) ==
    LET name == GetAttr(col, "name")
        typ  == GetAttr(col, "type")
        ftyp == IF IsOk(typ) THEN ApplyFormatter(type_formatter, typ.value) ELSE typ
        key  == GetAttr(col, "primary_key")
        args == FirstFailure(<<name, ftyp, key>>)
    IN  IF IsOk(args)
        THEN Ok([name |-> args.value[1], type |-> args.value[2],
                 is_key |-> args.value[3]])
        ELSE args

\* obj.table.fullname
TableFullname(col) ==
    LET t == GetAttr(col, "table")
    IN  IF IsOk(t) THEN GetAttr(t.value, "fullname") ELSE t

\* format_name(col.table.fullname)
FormattedFullname(col) ==
    LET n == TableFullname(col)
    IN  IF IsOk(n) THEN format_name(n.value) ELSE n

\* mutant: the two symbols the other way round
LeftCardinality_mut_swapped(nullable) == IF nullable THEN "+" ELSE "*"

\* '*' if parent.nullable else '+'
LeftCardinality(nullable)  == IF nullable THEN "*" ELSE "+"
\* '?' if referred.nullable else '1'
RightCardinality(nullable) == IF nullable THEN "?" ELSE "1"

SideCardinality(col, side) ==
    LET n == GetAttr(col, "nullable")
    IN  IF IsOk(n)
        THEN Ok(IF side = "left" THEN LeftCardinality(n.value)
                                 ELSE RightCardinality(n.value))
        ELSE n

\* mutant: left_col and right_col take each other's table
relation_to_intermediary_mut_swap(fk) ==
    LET parent   == GetAttr(fk, "parent")
        referred == GetAttr(fk, "column")
        both     == FirstFailure(<<parent, referred>>)
    IN  IF ~IsOk(both) THEN both
        ELSE LET args == FirstFailure(<<FormattedFullname(referred.value),
                                        FormattedFullname(parent.value),
                                        SideCardinality(parent.value, "left"),
                                        SideCardinality(referred.value, "right")>>)
             IN  IF IsOk(args)
                 THEN Ok([left_col          |-> args.value[1],
                          right_col         |-> args.value[2],
                          left_cardinality  |-> args.value[3],
                          right_cardinality |-> args.value[4]])
                 ELSE args

\* parent = fk.parent; referred = fk.column; return Relation(...)
relation_to_intermediary(fk) ==
    LET parent   == GetAttr(fk, "parent")
        referred == GetAttr(fk, "column")
        both     == FirstFailure(<<parent, referred>>)
    IN  IF ~IsOk(both) THEN both
        ELSE LET args == FirstFailure(<<FormattedFullname(parent.value),
                                        FormattedFullname(referred.value),
                                        SideCardinality(parent.value, "left"),
                                        SideCardinality(referred.value, "right")>>)
             IN  IF IsOk(args)
                 THEN Ok([left_col          |-> args.value[1],
                          right_col         |-> args.value[2],
                          left_cardinality  |-> args.value[3],
                          right_cardinality |-> args.value[4]])
                 ELSE args

\* mutant: the columns are taken last to first
TranslateColumns_mut_reversed(cols) ==
    FirstFailure([i \in 1..Len(cols) |->
                     column_to_intermediary(cols[Len(cols) + 1 - i], "format_type")])

\* [column_to_intermediary(col) for col in table.c._data.values()]
TranslateColumns(cols) ==
    FirstFailure([i \in 1..Len(cols) |-> column_to_intermediary(cols[i], "format_type")])

\* Table(name=table.fullname, columns=[...])
table_to_intermediary(table) ==
    LET name == GetAttr(table, "fullname")
        c    == GetAttr(table, "c")
        cols == IF IsOk(c) THEN TranslateColumns(c.value) ELSE c
        args == FirstFailure(<<name, cols>>)
    IN  IF IsOk(args)
        THEN Ok([name |-> args.value[1], columns |-> args.value[2]])
        ELSE args

RECURSIVE Concat(_)
Concat(ss) == IF Len(ss) = 0 THEN <<>> ELSE Head(ss) \o Concat(Tail(ss))

\* for fk in table.foreign_keys: relation_to_intermediary(fk), as outcomes in
\* evaluation order (reading table.foreign_keys comes first and may raise)
TableRelations(table) ==
    LET fks == GetAttr(table, "foreign_keys")
    IN  IF IsOk(fks)
        THEN [j \in 1..Len(fks.value) |-> relation_to_intermediary(fks.value[j])]
        ELSE <<fks>>

\* mutant: a table that fails to translate is left out
TranslateTables_mut_skip(tables) ==
    LET outs == [i \in 1..Len(tables) |-> table_to_intermediary(tables[i])]
        Good(o) == IsOk(o)
        kept == SelectSeq(outs, Good)
    IN  Ok([i \in 1..Len(kept) |-> kept[i].value])

\* tables = [table_to_intermediary(table) for table in metadata.tables.values()]
TranslateTables(tables) ==
    FirstFailure([i \in 1..Len(tables) |-> table_to_intermediary(tables[i])])

\* mutant: the tables are gone through last to first
TranslateRelations_mut_reversed(tables) ==
    FirstFailure(Concat([i \in 1..Len(tables) |->
                            TableRelations(tables[Len(tables) + 1 - i])]))

\* relationships = [relation_to_intermediary(fk)
\*                  for table in metadata.tables.values()
\*                  for fk in table.foreign_keys]
TranslateRelations(tables) ==
    FirstFailure(Concat([i \in 1..Len(tables) |-> TableRelations(tables[i])]))

\* return tables, relationships
metadata_to_intermediary(md) ==
    LET ts   == GetAttr(md, "tables")
        tabs == IF IsOk(ts) THEN TranslateTables(ts.value) ELSE ts
        rels == IF IsOk(ts) THEN TranslateRelations(ts.value) ELSE ts
        both == FirstFailure(<<tabs, rels>>)
    IN  IF IsOk(both)
        THEN Ok([tables |-> both.value[1], relations |-> both.value[2]])
        ELSE both

\* return metadata_to_intermediary(base.metadata)
declarative_to_intermediary(base) ==
    LET md == GetAttr(base, "metadata")
    IN  IF IsOk(md) THEN metadata_to_intermediary(md.value) ELSE md

----------------------------------------------------------------------------
(* Inputs                                                                   *)

SeqsUpTo(S, n) == UNION {[1..k -> S] : k \in 0..n}

ColNameValues   == {Text("id"), Text("name"), Other("id")}
TableNameValues == {Text("users"), Text("orders"), Other("users")}
TypeValues      == {TypeObj("INTEGER", "None"), TypeObj("VARCHAR", "None"),
                    TypeObj("", "CompileError"), TypeObj("", "TypeError")}
Formatters      == {"format_type", "custom"}

ColumnAttrs == {"name", "type", "primary_key"}
ColumnDomain ==
    [name : ColNameValues, type : TypeValues, primary_key : BOOLEAN,
     attrs : {ColumnAttrs} \cup {ColumnAttrs \ {a} : a \in ColumnAttrs}]

\* a column as a foreign key sees it: its table and its nullable flag
TableRefDomain == [fullname : TableNameValues, attrs : {{"fullname"}, {}}]
ColRefDomain ==
    [table : TableRefDomain, nullable : BOOLEAN,
     attrs : {{"table", "nullable"}, {"table"}, {"nullable"}}]
ForeignKeyDomain ==
    [parent : ColRefDomain, column : ColRefDomain,
     attrs : {{"parent", "column"}, {"parent"}, {"column"}}]

\* the columns a table given to table_to_intermediary is built from
TableColumns ==
    {c \in ColumnDomain :
        /\ c.name \in {Text("id"), Other("id")}
        /\ c.primary_key = (c.name = Text("id"))
        /\ c.type \in {TypeObj("INTEGER", "None"), TypeObj("", "CompileError"),
                       TypeObj("", "TypeError")}
        /\ c.attrs \in {ColumnAttrs, ColumnAttrs \ {"name"}}}
TableAttrs == {"fullname", "c", "foreign_keys"}
TableDomain ==
    [fullname : TableNameValues, c : SeqsUpTo(TableColumns, MaxCols),
     foreign_keys : {<<>>},
     attrs : {TableAttrs, TableAttrs \ {"fullname"}, TableAttrs \ {"c"}}]

\* The MetaData objects: metadata.tables is a dict keyed by table name, so the
\* tables of one MetaData have different names; a foreign key of a table has
\* a column of that table as its parent.
MetaTableNames == {Text("users"), Other("orders")}

MetaColumns ==
    {c \in ColumnDomain :
        /\ c.name = Text("id")
        /\ c.primary_key
        /\ c.attrs = ColumnAttrs
        /\ c.type \in {TypeObj("INTEGER", "None"), TypeObj("", "CompileError"),
                       TypeObj("", "TypeError")}}

ColRef(tname, nullable) ==
    [table |-> [fullname |-> tname, attrs |-> {"fullname"}],
     nullable |-> nullable, attrs |-> {"table", "nullable"}]

\* the referred column is not nullable here (ForeignKeyDomain has both);
\* the last one has no referred column (fk.column cannot be resolved)
MetaForeignKeys(owner) ==
    {[parent |-> ColRef(owner, pn), column |-> ColRef(ref, FALSE),
      attrs |-> {"parent", "column"}] :
        pn \in BOOLEAN, ref \in MetaTableNames}
    \cup {[parent |-> ColRef(owner, FALSE), column |-> ColRef(owner, TRUE),
           attrs |-> {"parent"}]}

NewTables(ts) ==
    {[fullname |-> n, c |-> <<>>, foreign_keys |-> <<>>, attrs |-> TableAttrs] :
        n \in MetaTableNames \ {ts[i].fullname : i \in 1..Len(ts)}}

\* the table sequences one more schema object makes out of ts
Grow(ts) ==
    {Append(ts, t) : t \in NewTables(ts)}
    \cup (IF Len(ts) = 0 THEN {}
          ELSE LET n == Len(ts) IN
               {[ts EXCEPT ![n].c = Append(@, c)] : c \in MetaColumns}
               \cup {[ts EXCEPT ![n].foreign_keys = Append(@, fk)] :
                        fk \in MetaForeignKeys(ts[n].fullname)})

RECURSIVE TablesUpTo(_)
TablesUpTo(k) ==
    IF k = 0 THEN {<<>>}
    ELSE LET prev == TablesUpTo(k - 1)
         IN  prev \cup UNION {Grow(ts) : ts \in prev}

MetadataDomain ==
    {[tables |-> ts, attrs |-> {"tables"}] : ts \in TablesUpTo(MaxObjects)}
    \cup {[tables |-> <<>>, attrs |-> {}]}

----------------------------------------------------------------------------
(* State                                                                    *)

Called(op, arg, fmt, r) ==
    [op |-> op, arg |-> arg, fmt |-> fmt, exc |-> r.exc, value |-> r.value,
     connects |-> 0]

NoCall    == Called("none", NoValue, "", Raise("none"))
NoFirst   == [set |-> FALSE, between |-> FALSE, exc |-> "none", value |-> NoValue]
NoEngine  == [uri |-> "", connects |-> 0]
NoBase    == [metadata |-> [tables |-> <<>>, schema |-> "None", attrs |-> {"tables"}],
              attrs |-> {"metadata"}]
EmptyMetadata == [tables |-> <<>>, attrs |-> {"tables"}]

\* another call was made after the first metadata_to_intermediary
Between == [first EXCEPT !.between = first.set]

IdleDb == pc = "idle" /\ engine = NoEngine /\ Base = NoBase /\ pool = 0

----------------------------------------------------------------------------
(* Calls of the translation functions on one column, foreign key, table  *)

NoInput == [kind |-> "none", obj |-> NoValue]
Inputs ==
    {[kind |-> "column", obj |-> c] : c \in ColumnDomain}
    \cup {[kind |-> "fk", obj |-> fk] : fk \in ForeignKeyDomain}
    \cup {[kind |-> "table", obj |-> t] : t \in TableDomain}

CallColumn ==
    /\ input.kind = "column"
    /\ \E fmt \in Formatters :
          out' = Called("column", input.obj, fmt,
                        column_to_intermediary(input.obj, fmt))
    /\ UNCHANGED <<input, metadata, first, pc, engine, Base, pool>>

CallRelation ==
    /\ input.kind = "fk"
    /\ out' = Called("relation", input.obj, "", relation_to_intermediary(input.obj))
    /\ UNCHANGED <<input, metadata, first, pc, engine, Base, pool>>

CallTable ==
    /\ input.kind = "table"
    /\ out' = Called("table", input.obj, "", table_to_intermediary(input.obj))
    /\ UNCHANGED <<input, metadata, first, pc, engine, Base, pool>>

Init ==
    /\ input \in Inputs
    /\ out = NoCall
    /\ metadata = EmptyMetadata
    /\ first = NoFirst
    /\ IdleDb

Next == CallColumn \/ CallRelation \/ CallTable

Spec == Init /\ [][Next]_vars

----------------------------------------------------------------------------
(* Calls on one MetaData object and on what it holds                        *)

\* the outcome of the first metadata_to_intermediary(metadata) is kept
Remember(r) ==
    IF first.set THEN first
    ELSE [set |-> TRUE, between |-> FALSE, exc |-> r.exc, value |-> r.value]

HasTables == "tables" \in metadata.attrs

CallMetadata ==
    /\ pc = "idle"
    /\ LET r == metadata_to_intermediary(metadata)
       IN  /\ out' = Called("metadata", NoValue, "", r)
           /\ first' = Remember(r)
    /\ UNCHANGED <<input, metadata, pc, engine, Base, pool>>

CallDeclarative ==
    /\ pc = "idle"
    /\ \E a \in {{"metadata"}, {}} :
          out' = Called("declarative", a, "",
                        declarative_to_intermediary([metadata |-> metadata,
                                                     attrs |-> a]))
    /\ first' = Between
    /\ UNCHANGED <<input, metadata, pc, engine, Base, pool>>

\* mutant: translating a table empties its column collection
CallTableOf_mut_consume ==
    /\ pc = "idle"
    /\ HasTables
    /\ \E i \in 1..Len(metadata.tables) :
          /\ out' = Called("table", metadata.tables[i], "",
                           table_to_intermediary(metadata.tables[i]))
          /\ metadata' = [metadata EXCEPT !.tables[i].c = <<>>]
    /\ first' = Between
    /\ UNCHANGED <<input, pc, engine, Base, pool>>

\* table_to_intermediary(table) on a table of the MetaData
CallTableOf ==
    /\ pc = "idle"
    /\ HasTables
    /\ \E i \in 1..Len(metadata.tables) :
          out' = Called("table", metadata.tables[i], "",
                        table_to_intermediary(metadata.tables[i]))
    /\ first' = Between
    /\ UNCHANGED <<input, metadata, pc, engine, Base, pool>>

CallColumnOf ==
    /\ pc = "idle"
    /\ HasTables
    /\ \E i \in 1..Len(metadata.tables) :
          \E j \in 1..Len(metadata.tables[i].c) :
             out' = Called("column", metadata.tables[i].c[j], "format_type",
                           column_to_intermediary(metadata.tables[i].c[j],
                                                  "format_type"))
    /\ first' = Between
    /\ UNCHANGED <<input, metadata, pc, engine, Base, pool>>

CallRelationOf ==
    /\ pc = "idle"
    /\ HasTables
    /\ \E i \in 1..Len(metadata.tables) :
          \E j \in 1..Len(metadata.tables[i].foreign_keys) :
             out' = Called("relation", metadata.tables[i].foreign_keys[j], "",
                           relation_to_intermediary(metadata.tables[i].foreign_keys[j]))
    /\ first' = Between
    /\ UNCHANGED <<input, metadata, pc, engine, Base, pool>>

----------------------------------------------------------------------------
(* database_to_intermediary(database_uri, schema), statement by statement.  *)
(* What SQLAlchemy and the database do is the environment: the URI names   *)
(* the database, and the variable metadata is the schema that database     *)
(* holds.                                                                   *)

DatabaseUris == {"not-a-uri", "db://down", "db://denied", "db://ok"}
Schemas      == {"None", "public"}

\* create_engine(database_uri): no connection is opened yet
create_engine(uri) ==
    IF uri = "not-a-uri" THEN Raise("ArgumentError")
    ELSE Ok([uri |-> uri, connects |-> 0])

Running(uri, schema) ==
    [op |-> "database", arg |-> <<uri, schema>>, fmt |-> "", exc |-> "running",
     value |-> NoValue, connects |-> 0]

Finished(r) ==
    [out EXCEPT !.exc = r.exc, !.value = r.value, !.connects = engine.connects]

\* Base = automap_base(); engine = create_engine(database_uri)
\* if schema is not None: Base.metadata.schema = schema
DbCreateEngine ==
    /\ pc = "idle"
    /\ \E uri \in DatabaseUris, schema \in Schemas :
          LET e == create_engine(uri) IN
          IF IsOk(e)
          THEN /\ engine' = e.value
               /\ Base' = [NoBase EXCEPT !.metadata.schema = schema]
               /\ out' = Running(uri, schema)
               /\ pc' = "prepare"
          ELSE /\ out' = [Running(uri, schema) EXCEPT !.exc = e.exc]
               /\ engine' = NoEngine
               /\ Base' = NoBase
               /\ pc' = "idle"
    /\ pool' = 0
    /\ first' = Between
    /\ UNCHANGED <<input, metadata>>

\* Base.prepare(engine, reflect=True, ...): connects, reflects the tables into
\* Base.metadata and gives the connection back to the engine's pool, which
\* keeps it open or closes it, as the pool class has it. Nothing in the
\* function disposes of the engine.
DbPrepare ==
    /\ pc = "prepare"
    /\ \/ /\ engine.uri = "db://down"
          /\ out' = [out EXCEPT !.exc = "OperationalError",
                                !.connects = engine.connects + 1]
          /\ pool' = 0
          /\ pc' = "idle"
          /\ engine' = NoEngine
          /\ Base' = NoBase
       \/ /\ engine.uri = "db://denied"
          /\ out' = [out EXCEPT !.exc = "ProgrammingError",
                                !.connects = engine.connects + 1]
          /\ pool' \in {0, 1}
          /\ pc' = "idle"
          /\ engine' = NoEngine
          /\ Base' = NoBase
       \/ /\ engine.uri = "db://ok"
          /\ engine' = [engine EXCEPT !.connects = @ + 1]
          /\ Base' = [Base EXCEPT !.metadata.tables =
                         IF HasTables THEN metadata.tables ELSE <<>>]
          /\ pool' \in {0, 1}
          /\ pc' = "translate"
          /\ out' = out
    /\ UNCHANGED <<input, metadata, first>>

\* return declarative_to_intermediary(Base): the locals engine and Base go
\* out of scope; the engine's pool is left as it is
DbReturn ==
    /\ pc = "translate"
    /\ out' = Finished(declarative_to_intermediary(Base))
    /\ pc' = "idle"
    /\ engine' = NoEngine
    /\ Base' = NoBase
    /\ UNCHANGED <<input, metadata, first, pool>>

InitMeta ==
    /\ input = NoInput
    /\ out = NoCall
    /\ metadata \in MetadataDomain
    /\ first = NoFirst
    /\ IdleDb

NextMeta ==
    \/ CallMetadata
    \/ CallDeclarative
    \/ CallTableOf
    \/ CallColumnOf
    \/ CallRelationOf

SpecMeta == InitMeta /\ [][NextMeta]_vars

NextDb ==
    \/ DbCreateEngine
    \/ DbPrepare
    \/ DbReturn
    \/ CallMetadata
    \/ CallDeclarative

SpecDb == InitMeta /\ [][NextDb]_vars

----------------------------------------------------------------------------
(* Properties                                                               *)

DefaultColumnCall == out.op = "column" /\ out.fmt = "format_type"
HasColumnAttrs(c) == ColumnAttrs \subseteq c.attrs

ColRefComplete(r) ==
    {"table", "nullable"} \subseteq r.attrs /\ "fullname" \in r.table.attrs
FkComplete(fk) ==
    /\ {"parent", "column"} \subseteq fk.attrs
    /\ ColRefComplete(fk.parent)
    /\ ColRefComplete(fk.column)

\* C1: relation_to_intermediary(fk) returns, for a foreign key that has its
\* parent and referred columns, a Relation with left_cardinality '*' when the
\* parent column is nullable and '+' otherwise, right_cardinality '?' when
\* the referred column is nullable and '1' otherwise, left_col the text of
\* the parent table's fullname and right_col the text of the referred
\* table's fullname; each side depends on its own column only.
C1_RelationCardinality ==
    (out.op = "relation" /\ FkComplete(out.arg)) =>
        /\ IsOk(out)
        /\ out.value.left_cardinality = (IF out.arg.parent.nullable THEN "*" ELSE "+")
        /\ out.value.right_cardinality = (IF out.arg.column.nullable THEN "?" ELSE "1")
        /\ out.value.left_col.kind = "text"
        /\ out.value.left_col.str = out.arg.parent.table.fullname.str
        /\ out.value.right_col.kind = "text"
        /\ out.value.right_col.str = out.arg.column.table.fullname.str
        /\ <<out.value.left_cardinality, out.value.right_cardinality>>
              \in {<<"*", "?">>, <<"*", "1">>, <<"+", "?">>, <<"+", "1">>}

C1_Witness ==
    /\ out.op = "relation"
    /\ FkComplete(out.arg)
    /\ out.arg.parent.nullable
    /\ ~out.arg.column.nullable
    /\ out.arg.parent.table.fullname # out.arg.column.table.fullname
    /\ out.value.left_cardinality = "*"
    /\ out.value.right_cardinality = "1"

\* C3: table_to_intermediary(table) returns a Table whose name is the
\* table's fullname and whose columns are, position by position, the
\* translations of the table's columns: same length, same order.
C3_TableColumnsInOrder ==
    (out.op = "table" /\ IsOk(out)) =>
        /\ out.value.name = out.arg.fullname
        /\ Len(out.value.columns) = Len(out.arg.c)
        /\ \A i \in 1..Len(out.arg.c) :
              /\ IsOk(column_to_intermediary(out.arg.c[i], "format_type"))
              /\ out.value.columns[i]
                    = column_to_intermediary(out.arg.c[i], "format_type").value

C3_Witness ==
    /\ out.op = "table"
    /\ IsOk(out)
    /\ Len(out.arg.c) = 2
    /\ out.value.columns[1] # out.value.columns[2]
    /\ out.value.columns[1].type = Text("Null")

\* C4: column_to_intermediary(col) with the default formatter returns a
\* Column with name = col.name, is_key = col.primary_key and type the text
\* form of col.type, or "Null" when the string conversion of col.type raises
\* CompileError; name and is_key are the column's also in that case.
C4_ColumnFields ==
    (/\ DefaultColumnCall
     /\ HasColumnAttrs(out.arg)
     /\ out.arg.type.raises \in {"None", "CompileError"}) =>
        /\ IsOk(out)
        /\ out.value.name = out.arg.name
        /\ out.value.is_key = out.arg.primary_key
        /\ out.value.type.kind = "text"
        /\ out.value.type.str = (IF out.arg.type.raises = "CompileError"
                                 THEN "Null" ELSE out.arg.type.str)

C4_Witness ==
    /\ DefaultColumnCall
    /\ HasColumnAttrs(out.arg)
    /\ out.arg.type.raises = "CompileError"
    /\ out.arg.primary_key
    /\ out.value.is_key
    /\ out.value.name = Text("name")
    /\ out.value.type = Text("Null")

\* C5 as claimed: whatever failure the string conversion of the column type
\* produces, column_to_intermediary completes and Column.type is "Null".
C5_NeverRaises ==
    (/\ DefaultColumnCall
     /\ HasColumnAttrs(out.arg)
     /\ out.arg.type.raises # "None") =>
        /\ IsOk(out)
        /\ out.value.type = Text("Null")

\* C5 as amended: only a CompileError of the type's string conversion is
\* caught, and then Column.type is "Null"; any other exception of the string
\* conversion is raised by column_to_intermediary to its caller.
C5_OnlyCompileErrorCaught ==
    (/\ DefaultColumnCall
     /\ HasColumnAttrs(out.arg)
     /\ out.arg.type.raises # "None") =>
        IF out.arg.type.raises = "CompileError"
        THEN IsOk(out) /\ out.value.type = Text("Null")
        ELSE out.exc = out.arg.type.raises /\ out.value = NoValue

C5_Witness ==
    /\ DefaultColumnCall
    /\ HasColumnAttrs(out.arg)
    /\ out.arg.type.raises = "TypeError"
    /\ out.exc = "TypeError"

\* C7: every name (Column.name, Table.name, Relation.left_col, right_col)
\* and every Column.type in an output is text, whatever the source value is.
C7_NamesAreText ==
    IsOk(out) =>
        /\ out.op = "column" =>
              out.value.name.kind = "text" /\ out.value.type.kind = "text"
        /\ out.op = "table" =>
              /\ out.value.name.kind = "text"
              /\ \A i \in 1..Len(out.value.columns) :
                    /\ out.value.columns[i].name.kind = "text"
                    /\ out.value.columns[i].type.kind = "text"
        /\ out.op = "relation" =>
              out.value.left_col.kind = "text" /\ out.value.right_col.kind = "text"

\* the foreign keys of tables 1..n of the MetaData, counted
RECURSIVE FkCount(_)
FkCount(n) ==
    IF n = 0 THEN 0 ELSE FkCount(n - 1) + Len(metadata.tables[n].foreign_keys)

\* every table and every foreign key of the MetaData translates
AllTranslate ==
    /\ HasTables
    /\ \A i \in 1..Len(metadata.tables) :
          /\ IsOk(table_to_intermediary(metadata.tables[i]))
          /\ \A j \in 1..Len(metadata.tables[i].foreign_keys) :
                IsOk(relation_to_intermediary(metadata.tables[i].foreign_keys[j]))

\* C2: metadata_to_intermediary(metadata) returns (tables, relations):
\* tables holds the translation of each table in metadata.tables order, and
\* relations holds the translation of each foreign key of each table, in
\* table order and then in the table's foreign-key order, none skipped and
\* none twice; a MetaData with no tables gives ([], []).
C2_MetadataTablesAndRelations ==
    (out.op = "metadata" /\ AllTranslate) =>
        /\ IsOk(out)
        /\ Len(out.value.tables) = Len(metadata.tables)
        /\ Len(out.value.relations) = FkCount(Len(metadata.tables))
        /\ \A i \in 1..Len(metadata.tables) :
              /\ out.value.tables[i] = table_to_intermediary(metadata.tables[i]).value
              /\ \A j \in 1..Len(metadata.tables[i].foreign_keys) :
                    out.value.relations[FkCount(i - 1) + j]
                       = relation_to_intermediary(metadata.tables[i].foreign_keys[j]).value
        /\ Len(metadata.tables) = 0 =>
              out.value = [tables |-> <<>>, relations |-> <<>>]

C2_Witness ==
    /\ out.op = "metadata"
    /\ IsOk(out)
    /\ Len(metadata.tables) = 2
    /\ Len(metadata.tables[1].foreign_keys) = 1
    /\ Len(metadata.tables[2].foreign_keys) = 1
    /\ Len(out.value.relations) = 2
    /\ out.value.relations[1].left_col # out.value.relations[2].left_col

\* the foreign key that relation k of the output comes from
ForeignKeyAt(k) == Concat([i \in 1..Len(metadata.tables) |->
                              metadata.tables[i].foreign_keys])[k]

InMetadata(name) == \E i \in 1..Len(metadata.tables) : metadata.tables[i].fullname = name

SameAsFirst(o, f) == o.exc = f.exc /\ (IsOk(o) => o.value = f.value)

ColumnFailures(c) ==
    (IF HasColumnAttrs(c) THEN {} ELSE {"AttributeError"})
    \cup ({c.type.raises} \ {"None", "CompileError"})
TableFailures(t) ==
    (IF TableAttrs \subseteq t.attrs THEN {} ELSE {"AttributeError"})
    \cup UNION {ColumnFailures(t.c[j]) : j \in 1..Len(t.c)}
    \cup {"AttributeError" : j \in {k \in 1..Len(t.foreign_keys) :
                                       ~FkComplete(t.foreign_keys[k])}}
Failures(tables) == UNION {TableFailures(tables[i]) : i \in 1..Len(tables)}

\* what a translation of these tables must end with
Propagates(tables) ==
    IF Failures(tables) = {} THEN IsOk(out)
    ELSE out.exc \in Failures(tables) /\ out.value = NoValue

\* C6: a failure other than a CompileError of type rendering is raised to
\* the caller of metadata_to_intermediary, declarative_to_intermediary and
\* database_to_intermediary: the call ends with the exception of the step
\* that failed (creating the engine, connecting, reflecting, reading an
\* attribute, rendering a type), connects at most once and returns no
\* (tables, relations) value.
C6_FailuresPropagate ==
    /\ (out.op = "metadata" /\ HasTables) => Propagates(metadata.tables)
    /\ (out.op = "metadata" /\ ~HasTables) =>
          out.exc = "AttributeError" /\ out.value = NoValue
    /\ (out.op = "declarative" /\ out.arg = {}) =>
          out.exc = "AttributeError" /\ out.value = NoValue
    /\ (out.op = "declarative" /\ out.arg = {"metadata"} /\ HasTables) =>
          Propagates(metadata.tables)
    /\ (out.op = "database" /\ out.exc # "running") =>
          /\ out.connects <= 1
          /\ out.arg[1] = "not-a-uri" =>
                out.exc = "ArgumentError" /\ out.value = NoValue /\ out.connects = 0
          /\ out.arg[1] = "db://down" =>
                out.exc = "OperationalError" /\ out.value = NoValue
          /\ out.arg[1] = "db://denied" =>
                out.exc = "ProgrammingError" /\ out.value = NoValue
          /\ out.arg[1] = "db://ok" =>
                Propagates(IF HasTables THEN metadata.tables ELSE <<>>)

C6_Witness ==
    /\ out.op = "database"
    /\ out.arg[1] = "db://ok"
    /\ out.exc = "TypeError"
    /\ out.connects = 1
    /\ Len(metadata.tables) = 2
    /\ Failures(<<metadata.tables[1]>>) = {}
    /\ Len(metadata.tables[2].c) = 2

\* C9: when database_to_intermediary has ended, by a return or by an
\* exception, the engine it created holds no open connection.
C9_ConnectionReleased ==
    (out.op = "database" /\ pc = "idle") => pool = 0

====
